---- MODULE Spec2Model ----
(***************************************************************************)
(* A model of the tabulator repository: the Codebook (codebook.py), the   *)
(* Tabulator that builds the bivariate table (tabulator.py), and their    *)
(* callers.                                                                *)
(*                                                                         *)
(* Python values are tagged pairs: I(n) is the int n, S(s) the str s and  *)
(* NA the missing marker (NaN / None) of a DataFrame.  A Python dict is a *)
(* sequence of <<key, value>> pairs in insertion order.  A DataFrame is a *)
(* sequence of columns, each a record [name, cells]; its index is always  *)
(* 0 .. n-1, so a row index i of the code is position i + 1 here.         *)
(***************************************************************************)
EXTENDS Integers, Sequences, FiniteSets, TLC

VARIABLES
    codebook,        \* the Codebook: variable name -> its dict (ordered pairs)
    data,            \* Tabulator.data: column name -> sequence of values
    sample_size,     \* Tabulator.sample_size
    decimal_places,  \* Tabulator.decimal_places
    registered,      \* history: variable -> the arguments of its last successful append
    result           \* the pending return value (or exception) of the last call

vars == <<codebook, data, sample_size, decimal_places, registered, result>>

----------------------------------------------------------------------------
(* Python values *)

I(n) == <<"int", n>>
S(s) == <<"str", s>>
NA == <<"nan", 0>>

IsStr(v) == v[1] = "str"
IsNull(v) == v[1] = "nan"

Digit(d) == <<"0", "1", "2", "3", "4", "5", "6", "7", "8", "9">>[d + 1]

RECURSIVE IntStr(_)
IntStr(n) == IF n < 10 THEN Digit(n) ELSE IntStr(n \div 10) \o Digit(n % 10)

\* str(value): the numeral of an int, a str itself, "nan" for the missing marker
Str(v) == IF v[1] = "int" THEN IntStr(v[2]) ELSE IF v[1] = "str" THEN v[2] ELSE "nan"

\* the reserved key under which an entry keeps the variable label
LabelKey == S("_label")

----------------------------------------------------------------------------
(* Python dict: insertion-ordered pairs *)

Range(s) == {s[i] : i \in DOMAIN s}

DictKeys(d) == [i \in DOMAIN d |-> d[i][1]]
DictValues(d) == [i \in DOMAIN d |-> d[i][2]]
DictHas(d, k) == \E i \in DOMAIN d : d[i][1] = k
DictGet(d, k) == d[CHOOSE i \in DOMAIN d : d[i][1] = k][2]

\* d[k] = v: an existing key keeps its position, a new key goes last
DictSet(d, k, v) ==
    IF DictHas(d, k)
    THEN [i \in DOMAIN d |-> IF d[i][1] = k THEN <<k, v>> ELSE d[i]]
    ELSE Append(d, <<k, v>>)

----------------------------------------------------------------------------
(* Codebook (codebook.py) *)

\* self[variable] = entry
CodebookSet(cb, variable, entry) ==
    [x \in DOMAIN cb \cup {variable} |-> IF x = variable THEN entry ELSE cb[x]]

\* the loop of append: for i in range(0, len(pairs), 2): self[variable][code] = label
RECURSIVE StorePairs(_, _, _)
StorePairs(entry, args, i) ==
    IF i > Len(args) THEN entry
    ELSE StorePairs(DictSet(entry, args[i], args[i + 1]), args, i + 2)

\* a slip of append: the entry is reset before the arguments are validated
AppendResetFirst(cb, variable, variable_label, args) ==
    IF Len(args) % 2 # 0
    THEN [raised |-> "ValueError",
          codebook |-> CodebookSet(cb, variable, <<<<LabelKey, variable_label>>>>)]
    ELSE [raised |-> "",
          codebook |-> CodebookSet(cb, variable,
                           StorePairs(<<<<LabelKey, variable_label>>>>, args, 1))]

\* Codebook.append(variable, variable_label, *code_label_pairs)
append(cb, variable, variable_label, args) ==
    IF Len(args) % 2 # 0
    THEN [raised |-> "ValueError", codebook |-> cb]
    ELSE [raised |-> "",
          codebook |-> CodebookSet(cb, variable,
                           StorePairs(<<<<LabelKey, variable_label>>>>, args, 1))]

\* Codebook.get_code_label(variable, code)
get_code_label(cb, variable, code) ==
    IF variable \in DOMAIN cb /\ DictHas(cb[variable], code)
    THEN DictGet(cb[variable], code)
    ELSE S(Str(code))

\* Codebook.get_variable_label(variable)
get_variable_label(cb, variable) ==
    IF variable \in DOMAIN cb /\ DictHas(cb[variable], LabelKey)
    THEN DictGet(cb[variable], LabelKey)
    ELSE S(variable)

----------------------------------------------------------------------------
(* pandas helpers *)

Min(a, b) == IF a < b THEN a ELSE b
Max(a, b) == IF a > b THEN a ELSE b

RECURSIVE Sum(_)
Sum(s) == IF s = <<>> THEN 0 ELSE Head(s) + Sum(Tail(s))

\* Series.dropna()
DropNa(s) == SelectSeq(s, LAMBDA v : ~IsNull(v))

\* Series.unique(): the distinct values in order of first appearance
RECURSIVE UniqueFrom(_, _, _)
UniqueFrom(s, i, acc) ==
    IF i > Len(s) THEN acc
    ELSE UniqueFrom(s, i + 1, IF s[i] \in Range(acc) THEN acc ELSE Append(acc, s[i]))

Unique(s) == UniqueFrom(s, 1, <<>>)

\* s[0:n]
Take(s, n) == SubSeq(s, 1, Min(n, Len(s)))

\* the positions (rows) of a column whose value equals code; NaN equals nothing
RowsEq(col, code) == {i \in DOMAIN col : ~IsNull(col[i]) /\ col[i] = code}

\* Series.eq(code).sum()
CountEq(col, code) == Cardinality(RowsEq(col, code))

\* Series.isnull().sum()
CountNull(col) == Cardinality({i \in DOMAIN col : IsNull(col[i])})

\* the values of col at the rows of a set, in row order
RECURSIVE AtRowsFrom(_, _, _)
AtRowsFrom(col, rows, i) ==
    IF i > Len(col) THEN <<>>
    ELSE (IF i \in rows THEN <<col[i]>> ELSE <<>>) \o AtRowsFrom(col, rows, i + 1)

AtRows(col, rows) == AtRowsFrom(col, rows, 1)

----------------------------------------------------------------------------
(* formatting *)

RECURSIVE Pow10(_)
Pow10(k) == IF k = 0 THEN 1 ELSE 10 * Pow10(k - 1)

\* the last w decimal digits of n, zero padded
RECURSIVE PadStr(_, _)
PadStr(n, w) == IF w = 0 THEN "" ELSE PadStr(n \div 10, w - 1) \o Digit(n % 10)

\* f"{count / total:.{dp}%}" for total > 0: the ratio times 100, rounded to dp
\* decimals.  (No ratio of the datasets below lies half way between two
\* numerals: that needs a total divisible by 8.)
PercentText(count, total, dp) ==
    LET scaled == (2 * count * 100 * Pow10(dp) + total) \div (2 * total)
    IN  IntStr(scaled \div Pow10(dp))
            \o (IF dp = 0 THEN "" ELSE "." \o PadStr(scaled % Pow10(dp), dp))
            \o "%"

\* the same with a numpy count: division by zero gives nan or inf, no exception
NumpyPercentText(count, total, dp) ==
    IF total = 0 THEN (IF count = 0 THEN "nan%" ELSE "inf%")
    ELSE PercentText(count, total, dp)

\* f"{count} ({count / total:.{dp}%})"
CountPercentText(count, total, dp) ==
    IntStr(count) \o " (" \o NumpyPercentText(count, total, dp) \o ")"

\* an f-string of real-valued statistics, f"{mean:.{dp}f} ({sd:.{dp}f})" and the
\* like: still a str, but its numerals are not computed; the value keeps the
\* format, the samples the statistics are taken over and the decimal places
Formatted(format, samples, dp) == <<"str", format, samples, dp>>

\* f"{mean:.{dp}f} ({sd:.{dp}f})" of a Series: mean() and std() skip NaN
MeanSdText(sample, dp) == Formatted("{mean} ({sd})", <<DropNa(sample)>>, dp)

\* f"{median:.{dp}f} ({iqr:.{dp}f})" of a Series: median() and quantile() skip NaN
MedianIqrText(sample, dp) == Formatted("{median} ({iqr})", <<DropNa(sample)>>, dp)

----------------------------------------------------------------------------
(* Tabulator.split_codes_labels *)

\* the cap on the inferred codes of an unregistered variable
CodeCap == 20

\* a slip of split_codes_labels: codes.pop() drops the last key, not the first
PopLast(keys) == SubSeq(keys, 1, Len(keys) - 1)

\* codes.pop(0)
PopFirst(keys) == Tail(keys)

\* a slip of split_codes_labels: the inferred codes are not cut to the cap
InferredCodesUncut(col) == Unique(DropNa(col))

\* self.data[variable].dropna().unique()[0:20]
InferredCodes(col) == Take(Unique(DropNa(col)), CodeCap)

\* a slip of split_codes_labels: the label key is dropped from the codebook's own
\* entry of each described variable, not from a list of its keys
CodebookLabelDropped(cb, variables) ==
    [x \in DOMAIN cb |-> IF x \in Range(variables) /\ cb[x] # <<>> THEN Tail(cb[x]) ELSE cb[x]]

\* the codebook after the variables were described: lines 30-32 build fresh
\* lists of the entry's keys and values, and the entry stays as it was
CodebookAfterDescribe(cb, variables) == cb

split_codes_labels(cb, df, variable) ==
    IF variable \in DOMAIN cb
    THEN IF cb[variable] = <<>>
         THEN [raised |-> "IndexError", codes |-> <<>>, labels |-> <<>>]
         ELSE [raised |-> "",
               codes |-> PopFirst(DictKeys(cb[variable])),
               labels |-> DictValues(cb[variable])]
    ELSE IF variable \notin DOMAIN df
         THEN [raised |-> "KeyError", codes |-> <<>>, labels |-> <<>>]
         ELSE LET codes == InferredCodes(df[variable])
              IN  [raised |-> "",
                   codes |-> codes,
                   labels |-> <<S(variable)>> \o [i \in DOMAIN codes |-> S(Str(codes[i]))]]

----------------------------------------------------------------------------
(* DataFrame: a sequence of columns, each [name, cells] *)

Column(name, cells) == [name |-> name, cells |-> cells]

\* a slip of generate_bivariate_table: report.shape[0] where shape[1] is meant
Shape0(frame) == IF frame = <<>> THEN 0 ELSE Len(frame[1].cells)

\* report.shape[1]: the number of columns
Shape1(frame) == Len(frame)

\* len(frame): the number of rows
NRows(frame) == IF frame = <<>> THEN 0 ELSE Len(frame[1].cells)

PadCells(cells, n) == cells \o [i \in 1 .. (n - Len(cells)) |-> NA]

\* pd.concat([a, b], axis=1): the indexes 0 .. n-1 are aligned, and a frame with
\* fewer rows is filled with NaN
Concat(a, b) ==
    LET n == Max(NRows(a), NRows(b))
    IN  [i \in 1 .. (Len(a) + Len(b)) |->
            LET c == IF i <= Len(a) THEN a[i] ELSE b[i - Len(a)]
            IN  Column(c.name, PadCells(c.cells, n))]

\* a slip of the loops over categories: the two columns change places, and the
\* rows are chosen by the column the statistic is meant for
WhereExchanged(df, by, code, of) == AtRows(df[by], RowsEq(df[of], code))

\* self.data.loc[self.data[by] == code, of]
Where(df, by, code, of) == AtRows(df[of], RowsEq(df[by], code))

\* the rows in which both columns hold a value (nan_policy="omit")
BothPresent(x, y) == {i \in DOMAIN x : ~IsNull(x[i]) /\ ~IsNull(y[i])}

----------------------------------------------------------------------------
(* Tabulator.calculate_covariate_name_column *)

NameRowsFor(labels, var_type, suffix) ==
    IF var_type = "N" THEN <<labels[1], S("mean (sd)")>>
    ELSE IF var_type = "U" THEN <<labels[1], S("median (IQR)")>>
    ELSE IF var_type = "C" THEN <<S(Str(labels[1]) \o " " \o suffix)>> \o Tail(labels)
    ELSE <<>>

RECURSIVE NameRows(_, _, _, _, _)
NameRows(self, covariates, variable_type, suffix, k) ==
    IF k > Min(Len(covariates), Len(variable_type))
    THEN [raised |-> "", cells |-> <<>>]
    ELSE LET sp == split_codes_labels(self.codebook, self.data, covariates[k])
         IN  IF sp.raised # ""
             THEN [raised |-> sp.raised, cells |-> <<>>]
             ELSE LET rest == NameRows(self, covariates, variable_type, suffix, k + 1)
                  IN  IF rest.raised # "" THEN rest
                      ELSE [raised |-> "",
                            cells |-> NameRowsFor(sp.labels, variable_type[k], suffix)
                                          \o rest.cells]

calculate_covariate_name_column(self, covariates, variable_type, total_row, suffix) ==
    LET rows == NameRows(self, covariates, variable_type, suffix, 1)
    IN  [raised |-> rows.raised,
         frame |-> <<Column(S(""),
                       <<S("Characteristics")>>
                           \o (IF total_row THEN <<S("All participants")>> ELSE <<>>)
                           \o rows.cells)>>]

----------------------------------------------------------------------------
(* Tabulator.calculate_total_column *)

\* a slip of calculate_total_column: without the else branch no blank cell is
\* appended when missing counts are not asked for
MissingRowsNoBlank(self, variable, missing) ==
    IF missing
    THEN LET missing_count == CountNull(self.data[variable])
         IN  <<S(IntStr(missing_count) \o " missing ("
                   \o NumpyPercentText(missing_count, self.sample_size, self.decimal_places)
                   \o ")")>>
    ELSE <<>>

\* the cell of a covariate's header row: the missing count, or a blank
MissingRows(self, variable, missing) ==
    IF missing
    THEN LET missing_count == CountNull(self.data[variable])
         IN  <<S(IntStr(missing_count) \o " missing ("
                   \o NumpyPercentText(missing_count, self.sample_size, self.decimal_places)
                   \o ")")>>
    ELSE <<S("")>>

\* a slip of calculate_total_column: the comparison is turned round, and the
\* rows counted are those of the other categories
TotalCountCellOfOthers(self, variable, code) ==
    LET col == self.data[variable]
    IN  S(CountPercentText(Len(DropNa(col)) - CountEq(col, code),
                           self.sample_size, self.decimal_places))

\* f"{count} ({count / self.sample_size:.{dp}%})" of one category
TotalCountCell(self, variable, code) ==
    S(CountPercentText(CountEq(self.data[variable], code),
                       self.sample_size, self.decimal_places))

TotalRowsFor(self, variable, var_type, missing) ==
    LET df == self.data
        dp == self.decimal_places
        present == variable \in DOMAIN df
    IN  IF missing /\ ~present THEN [raised |-> "KeyError", cells |-> <<>>]
        ELSE IF var_type = "N"
        THEN IF ~present THEN [raised |-> "KeyError", cells |-> <<>>]
             ELSE [raised |-> "",
                   cells |-> MissingRows(self, variable, missing)
                                 \o <<(MeanSdText(df[variable], dp))>>]
        ELSE IF var_type = "U"
        THEN IF ~present THEN [raised |-> "KeyError", cells |-> <<>>]
             ELSE [raised |-> "",
                   cells |-> MissingRows(self, variable, missing)
                                 \o <<(MedianIqrText(df[variable], dp))>>]
        ELSE IF var_type = "C"
        THEN LET sp == split_codes_labels(self.codebook, df, variable)
             IN  IF sp.raised # "" THEN [raised |-> sp.raised, cells |-> <<>>]
                 ELSE IF sp.codes # <<>> /\ ~present
                 THEN [raised |-> "KeyError", cells |-> <<>>]
                 ELSE [raised |-> "",
                       cells |-> MissingRows(self, variable, missing)
                                     \o [i \in DOMAIN sp.codes |->
                                            TotalCountCell(self, variable, sp.codes[i])]]
        ELSE [raised |-> "", cells |-> MissingRows(self, variable, missing)]

RECURSIVE TotalRows(_, _, _, _, _)
TotalRows(self, covariates, variable_type, missing, k) ==
    IF k > Min(Len(covariates), Len(variable_type))
    THEN [raised |-> "", cells |-> <<>>]
    ELSE LET here == TotalRowsFor(self, covariates[k], variable_type[k], missing)
         IN  IF here.raised # "" THEN here
             ELSE LET rest == TotalRows(self, covariates, variable_type, missing, k + 1)
                  IN  IF rest.raised # "" THEN rest
                      ELSE [raised |-> "", cells |-> here.cells \o rest.cells]

calculate_total_column(self, covariates, variable_type, missing, total_row) ==
    LET rows == TotalRows(self, covariates, variable_type, missing, 1)
    IN  [raised |-> rows.raised,
         frame |-> <<Column(S(""),
                       <<S("Total")>>
                           \o (IF total_row
                               THEN <<S(IntStr(self.sample_size) \o " (100%)")>>
                               ELSE <<>>)
                           \o rows.cells)>>]

----------------------------------------------------------------------------
(* Tabulator.calculate_variable_of_interest_columns *)

\* the columns created before the grid is sized: one for a numeric variable of
\* interest, one per category label otherwise (result[label] = None creates a
\* column only for a label not seen before)
BlockColumns(labels, variable_type) ==
    IF variable_type = "N" \/ variable_type = "U" THEN <<labels[1]>>
    ELSE IF variable_type = "C" THEN Unique(Tail(labels))
    ELSE <<>>

\* result.reindex(index=RangeIndex(stop=table_length), fill_value="")
EmptyGrid(names, table_length) ==
    [c \in DOMAIN names |-> Column(names[c], [r \in 1 .. table_length |-> S("")])]

Raise(st, error) == IF st.raised # "" THEN st ELSE [st EXCEPT !.raised = error]

\* result.iloc[row_index, col_index] = text
SetCell(st, text) ==
    IF st.raised # "" THEN st
    ELSE IF st.row_index >= st.nrows \/ st.col_index >= Len(st.grid)
    THEN [st EXCEPT !.raised = "IndexError"]
    ELSE [st EXCEPT !.grid[st.col_index + 1].cells[st.row_index + 1] = text]

\* one cell per text along the row: col_index += 1 after each
RECURSIVE WriteAcross(_, _)
WriteAcross(st, texts) ==
    IF texts = <<>> THEN st
    ELSE WriteAcross([SetCell(st, Head(texts)) EXCEPT !.col_index = @ + 1], Tail(texts))

\* one cell per text down the column: row_index += 1 after each
RECURSIVE WriteDown(_, _)
WriteDown(st, texts) ==
    IF texts = <<>> THEN st
    ELSE WriteDown([SetCell(st, Head(texts)) EXCEPT !.row_index = @ + 1], Tail(texts))

NextRow(st) == [st EXCEPT !.row_index = @ + 1]

\* the "All participants" row of the block (lines 166-188)
VoiTotalRow(self, st, voi, variable_type, codes) ==
    LET df == self.data
        dp == self.decimal_places
        present == voi \in DOMAIN df
    IN  NextRow(
            IF variable_type = "N"
            THEN IF ~present THEN Raise(st, "KeyError")
                 ELSE SetCell(st, (MeanSdText(df[voi], dp)))
            ELSE IF variable_type = "U"
            THEN IF ~present THEN Raise(st, "KeyError")
                 ELSE SetCell(st, (MedianIqrText(df[voi], dp)))
            ELSE IF variable_type = "C"
            THEN IF codes # <<>> /\ ~present THEN Raise(st, "KeyError")
                 ELSE WriteAcross(st, [i \in DOMAIN codes |->
                          S(CountPercentText(CountEq(df[voi], codes[i]),
                                             self.sample_size, dp))])
            ELSE st)

\* a slip of the categorical-by-categorical cell: the percentage is taken of
\* the sample size, as in the total column
CrossCellOfSample(self, covariate, covariate_code, voi, code) ==
    LET df == self.data
        count == Cardinality(RowsEq(df[covariate], covariate_code)
                                 \cap RowsEq(df[voi], code))
    IN  S(IntStr(count) \o " ("
            \o PercentText(count, self.sample_size, self.decimal_places) \o ")")

\* f"{count} ({count / total:.{dp}%})" with total the rows of the covariate
\* category and count those of them in the category of the variable of interest
CrossCell(self, covariate, covariate_code, voi, code) ==
    LET df == self.data
        total == Cardinality(RowsEq(df[covariate], covariate_code))
        count == Cardinality(RowsEq(df[covariate], covariate_code)
                                 \cap RowsEq(df[voi], code))
    IN  S(IntStr(count) \o " (" \o PercentText(count, total, self.decimal_places) \o ")")

\* lines 300-314: one row per covariate category, one cell per category of the
\* variable of interest; count / total raises when the covariate category is empty
RECURSIVE CrossRows(_, _, _, _, _, _, _)
CrossRows(self, st, covariate, covariate_codes, voi, codes, i) ==
    IF i > Len(covariate_codes) \/ st.raised # "" THEN st
    ELSE LET df == self.data
             s0 == [st EXCEPT !.col_index = 0]
         IN  IF covariate \notin DOMAIN df THEN Raise(st, "KeyError")
             ELSE IF codes # <<>> /\ voi \notin DOMAIN df THEN Raise(st, "KeyError")
             ELSE IF codes # <<>> /\ RowsEq(df[covariate], covariate_codes[i]) = {}
             THEN Raise(st, "ZeroDivisionError")
             ELSE CrossRows(self,
                      NextRow(WriteAcross(s0, [j \in DOMAIN codes |->
                          CrossCell(self, covariate, covariate_codes[i], voi, codes[j])])),
                      covariate, covariate_codes, voi, codes, i + 1)

\* the body of the loop over the covariates (lines 192-318)
VoiCovariate(self, st, covariate, covariate_type, voi, variable_type, codes) ==
    IF st.raised # "" THEN st
    ELSE
    LET df == self.data
        dp == self.decimal_places
        sp == split_codes_labels(self.codebook, df, covariate)
        covariate_codes == sp.codes
        both == voi \in DOMAIN df /\ covariate \in DOMAIN df
        \* col_index = 0; row_index += 1
        s0 == [st EXCEPT !.col_index = 0, !.row_index = @ + 1]
        spearman(prefix) ==
            IF ~both THEN Raise(s0, "KeyError")
            ELSE LET rows == BothPresent(df[voi], df[covariate])
                 IN  NextRow(SetCell(s0, Formatted(prefix \o "{spearmanr}",
                         <<AtRows(df[voi], rows), AtRows(df[covariate], rows)>>, dp)))
    IN  IF sp.raised # "" THEN Raise(st, sp.raised)
        \* pearsonr is given the whole columns, missing values and all
        ELSE IF covariate_type = "N" /\ variable_type = "N"
        THEN IF ~both THEN Raise(s0, "KeyError")
             ELSE IF Len(df[voi]) < 2 THEN Raise(s0, "ValueError")
             ELSE NextRow(SetCell(s0, Formatted("Pearson r: {pearsonr}",
                      <<df[voi], df[covariate]>>, dp)))
        ELSE IF covariate_type = "N" /\ variable_type = "U"
        THEN spearman("Spearman r: ")
        ELSE IF covariate_type = "N" /\ variable_type = "C"
        THEN IF codes # <<>> /\ ~both THEN Raise(s0, "KeyError")
             ELSE NextRow(WriteAcross(s0, [i \in DOMAIN codes |->
                      (MeanSdText(Where(df, voi, codes[i], covariate), dp))]))
        ELSE IF covariate_type = "U" /\ (variable_type = "N" \/ variable_type = "U")
        THEN spearman("spearman r: ")
        ELSE IF covariate_type = "U" /\ variable_type = "C"
        THEN IF codes # <<>> /\ ~both THEN Raise(s0, "KeyError")
             ELSE NextRow(WriteAcross(s0, [i \in DOMAIN codes |->
                      (MedianIqrText(Where(df, voi, codes[i], covariate), dp))]))
        ELSE IF covariate_type = "C" /\ variable_type = "N"
        THEN IF covariate_codes # <<>> /\ ~both THEN Raise(s0, "KeyError")
             ELSE WriteDown(s0, [i \in DOMAIN covariate_codes |->
                      (MeanSdText(Where(df, covariate, covariate_codes[i], voi), dp))])
        ELSE IF covariate_type = "C" /\ variable_type = "U"
        THEN IF covariate_codes # <<>> /\ ~both THEN Raise(s0, "KeyError")
             ELSE WriteDown(s0, [i \in DOMAIN covariate_codes |->
                      (MedianIqrText(Where(df, covariate, covariate_codes[i], voi), dp))])
        ELSE IF covariate_type = "C" /\ variable_type = "C"
        THEN CrossRows(self, s0, covariate, covariate_codes, voi, codes, 1)
        ELSE s0

RECURSIVE VoiCovariates(_, _, _, _, _, _, _, _)
VoiCovariates(self, st, covariates, covariable_type, voi, variable_type, codes, k) ==
    IF k > Min(Len(covariates), Len(covariable_type)) THEN st
    ELSE VoiCovariates(self,
             VoiCovariate(self, st, covariates[k], covariable_type[k],
                          voi, variable_type, codes),
             covariates, covariable_type, voi, variable_type, codes, k + 1)

\* lines 320-324: row 0 takes the column labels; the columns are then renamed,
\* which raises when the number of new names is not the number of columns
VoiHeader(st, labels, variable_type) ==
    IF st.raised # "" THEN st
    ELSE LET named == [c \in DOMAIN st.grid |->
                          Column(st.grid[c].name,
                                 [st.grid[c].cells EXCEPT ![1] = st.grid[c].name])]
             names == IF variable_type = "C"
                      THEN <<labels[1]>> \o [i \in 1 .. (Len(labels) - 2) |-> S("")]
                      ELSE <<S("")>>
         IN  IF variable_type \notin {"N", "U", "C"} THEN [st EXCEPT !.grid = named]
             ELSE IF Len(names) # Len(st.grid) THEN [st EXCEPT !.raised = "ValueError"]
             ELSE [st EXCEPT !.grid =
                      [c \in DOMAIN named |-> Column(names[c], named[c].cells)]]

\* lines 151-188: the grid is sized, the cursor set to row 1, column 0, and the
\* "All participants" row written when asked for
VoiStart(self, sp, variable_of_interest, variable_type, table_length, total_row) ==
    LET st0 == [raised |-> "",
                grid |-> EmptyGrid(BlockColumns(sp.labels, variable_type), table_length),
                nrows |-> table_length,
                row_index |-> 1,
                col_index |-> 0]
    IN  IF total_row
        THEN VoiTotalRow(self, st0, variable_of_interest, variable_type, sp.codes)
        ELSE st0

calculate_variable_of_interest_columns(self, covariates, covariable_type, variable_of_interest, variable_type, table_length, total_row) ==
    LET sp == split_codes_labels(self.codebook, self.data, variable_of_interest)
    IN  IF sp.raised # "" THEN [raised |-> sp.raised, frame |-> <<>>]
        ELSE
        LET st1 == VoiStart(self, sp, variable_of_interest, variable_type,
                            table_length, total_row)
            st2 == VoiCovariates(self, st1, covariates, covariable_type,
                                 variable_of_interest, variable_type, sp.codes, 1)
            st3 == VoiHeader(st2, sp.labels, variable_type)
        IN  [raised |-> st3.raised, frame |-> st3.grid]

----------------------------------------------------------------------------
(* Tabulator.generate_bivariate_table *)

\* the loop over the variables of interest (lines 371-383)
RECURSIVE VoiBlocks(_, _, _, _, _, _, _, _)
VoiBlocks(self, acc, covariates, covariable_type, vois, voi_types, total_row, k) ==
    IF k > Min(Len(vois), Len(voi_types)) \/ acc.raised # "" THEN acc
    ELSE LET report == calculate_variable_of_interest_columns(
                           self, covariates, covariable_type, vois[k], voi_types[k],
                           NRows(acc.table), total_row)
         IN  IF report.raised # ""
             THEN [acc EXCEPT !.raised = report.raised]
             ELSE VoiBlocks(self,
                      [raised |-> "",
                       table |-> Concat(acc.table, report.frame),
                       column_grouping |-> Append(acc.column_grouping, Shape1(report.frame))],
                      covariates, covariable_type, vois, voi_types, total_row, k + 1)

Failed(error) == [raised |-> error, table |-> <<>>, column_grouping |-> <<>>]

generate_bivariate_table(self, covariates, covariable_type, vois, voi_types, missing, total_row, total_column, suffix) ==
    LET name == calculate_covariate_name_column(self, covariates, covariable_type,
                                                total_row, suffix)
        total == calculate_total_column(self, covariates, covariable_type,
                                        missing, total_row)
    IN  IF name.raised # "" THEN Failed(name.raised)
        ELSE IF total_column /\ total.raised # "" THEN Failed(total.raised)
        ELSE LET start == IF total_column
                          THEN [raised |-> "",
                                table |-> Concat(name.frame, total.frame),
                                column_grouping |-> <<1, 1>>]
                          ELSE [raised |-> "",
                                table |-> name.frame,
                                column_grouping |-> <<1>>]
                 done == VoiBlocks(self, start, covariates, covariable_type,
                                   vois, voi_types, total_row, 1)
             IN  IF done.raised # "" THEN Failed(done.raised) ELSE done

----------------------------------------------------------------------------
(* the callers' inputs *)

\* the column / variable names the callers use
Vars == {"sex", "qsmk"}

\* the longest argument list *code_label_pairs a caller passes to append
MaxArgs == 4

\* the codes a caller registers or looks up: two ordinary codes and the str
\* that is also the reserved key
Keys == {I(1), I(2), LabelKey}

\* the variable labels a caller gives a variable
VarLabels(v) == IF v = "sex" THEN {S("Sex"), S("Gender")} ELSE {S("Quit smoking")}
CodeLabels == {S("A"), S("B")}

\* code1, label1, code2, label2, ... (possibly cut after a code)
ArgLists ==
    UNION {{a \in [1 .. n -> Keys \cup CodeLabels] :
               \A i \in 1 .. n : IF i % 2 = 1 THEN a[i] \in Keys ELSE a[i] \in CodeLabels}
           : n \in 0 .. MaxArgs}

EmptyDict == [x \in {} |-> <<>>]

\* the dataset of the codebook's callers
SmallData == [v \in Vars |-> IF v = "sex" THEN <<I(1), I(2), NA, I(1)>>
                                          ELSE <<I(2), NA, I(2), I(1)>>]

NoCall == [op |-> "none"]
Idle == result.op = "none"

----------------------------------------------------------------------------
(* the codebook's operations *)

CodebookAppend ==
    \E variable \in Vars, args \in ArgLists : \E variable_label \in VarLabels(variable) :
        LET r == append(codebook, variable, variable_label, args)
        IN  /\ Idle
            /\ codebook' = r.codebook
            /\ registered' =
                   IF r.raised = ""
                   THEN CodebookSet(registered, variable,
                                    [label |-> variable_label, args |-> args])
                   ELSE registered
            /\ result' = [op |-> "append", variable |-> variable,
                          nargs |-> Len(args), raised |-> r.raised]
            /\ UNCHANGED <<data, sample_size, decimal_places>>

GetVariableLabel ==
    \E variable \in Vars :
        /\ Idle
        /\ result' = [op |-> "get_variable_label", variable |-> variable,
                      value |-> get_variable_label(codebook, variable)]
        /\ UNCHANGED <<codebook, data, sample_size, decimal_places, registered>>

GetCodeLabel ==
    \E variable \in Vars, code \in Keys :
        /\ Idle
        /\ result' = [op |-> "get_code_label", variable |-> variable, code |-> code,
                      value |-> get_code_label(codebook, variable, code)]
        /\ UNCHANGED <<codebook, data, sample_size, decimal_places, registered>>

SplitCodesLabels ==
    \E variable \in Vars :
        LET r == split_codes_labels(codebook, data, variable)
        IN  /\ Idle
            /\ result' = [op |-> "split_codes_labels", variable |-> variable,
                          raised |-> r.raised, codes |-> r.codes, labels |-> r.labels]
            /\ codebook' = CodebookAfterDescribe(codebook, <<variable>>)
            /\ UNCHANGED <<data, sample_size, decimal_places, registered>>

\* the caller drops the returned value before its next call
Discard ==
    /\ ~Idle
    /\ result' = NoCall
    /\ UNCHANGED <<codebook, data, sample_size, decimal_places, registered>>

\* Codebook() and Tabulator(data, codebook) as constructed
InitCodebook ==
    /\ codebook = EmptyDict
    /\ registered = EmptyDict
    /\ data = SmallData
    /\ sample_size = Len(SmallData["sex"])
    /\ decimal_places = 2
    /\ result = NoCall

NextCodebook ==
    \/ CodebookAppend
    \/ GetVariableLabel
    \/ GetCodeLabel
    \/ SplitCodesLabels
    \/ Discard

SpecCodebook == InitCodebook /\ [][NextCodebook]_vars

----------------------------------------------------------------------------
(* what the callers registered, read off the arguments of append *)

\* the codes of code1, label1, code2, label2, ... in the order given
GivenCodes(args) == [i \in 1 .. (Len(args) \div 2) |-> args[2 * i - 1]]

\* the label given last for a code
LastLabel(args, code) ==
    LET last == CHOOSE i \in 1 .. (Len(args) \div 2) :
                    /\ args[2 * i - 1] = code
                    /\ \A j \in (i + 1) .. (Len(args) \div 2) : args[2 * j - 1] # code
    IN  args[2 * last]

IsRegistered(variable) == variable \in DOMAIN registered
IsRegisteredPair(variable, code) ==
    IsRegistered(variable) /\ code \in Range(GivenCodes(registered[variable].args))

----------------------------------------------------------------------------
(* C5 *)

\* C5: for a variable with an entry in the codebook, split_codes_labels returns
\* the codes given to append, in the order they were first given and without the
\* reserved "_label" key, and labels[i + 1] is the label registered (last) for
\* the i-th returned code.
C5_RegisteredCodesInOrder ==
    (result.op = "split_codes_labels" /\ result.variable \in DOMAIN codebook) =>
        LET given == registered[result.variable].args
            expected == SelectSeq(Unique(GivenCodes(given)), LAMBDA c : c # LabelKey)
        IN  /\ result.raised = ""
            /\ result.codes = expected
            /\ Len(result.labels) = Len(result.codes) + 1
            /\ \A i \in DOMAIN result.codes :
                   result.labels[i + 1] = LastLabel(given, result.codes[i])

\* a registered variable with two codes, given in descending order, was described
C5_Witness ==
    /\ result.op = "split_codes_labels"
    /\ result.variable \in DOMAIN codebook
    /\ result.codes = <<I(2), I(1)>>
    /\ result.labels[2] # result.labels[3]

----------------------------------------------------------------------------
(* C8 *)

\* C8: get_variable_label returns the registered variable label, or the name
\* itself when the name is not registered; get_code_label returns the label
\* registered for (name, code), and str(code) for every code that was not
\* registered as a pair for name.
C8_LookupsFallBack ==
    /\ result.op = "get_variable_label" =>
           result.value = IF IsRegistered(result.variable)
                          THEN registered[result.variable].label
                          ELSE S(result.variable)
    /\ result.op = "get_code_label" =>
           result.value = IF IsRegisteredPair(result.variable, result.code)
                          THEN LastLabel(registered[result.variable].args, result.code)
                          ELSE S(Str(result.code))

----------------------------------------------------------------------------
(* C9 *)

\* C9: after a successful append(v, L, c1, l1, ..., cn, ln) the entry of v is L
\* followed by the given pairs in the order given: get_variable_label(v) is L,
\* get_code_label(v, ci) is the label given (last) for ci, and the entries of
\* the other variables are unchanged.
C9_AppendRegisters ==
    [][(result'.op = "append" /\ result'.raised = "") =>
          LET v == result'.variable
              given == registered'[v].args
          IN  /\ get_variable_label(codebook', v) = registered'[v].label
              /\ \A c \in Range(GivenCodes(given)) :
                     get_code_label(codebook', v, c) = LastLabel(given, c)
              /\ DictKeys(codebook'[v]) = <<LabelKey>> \o Unique(GivenCodes(given))
              /\ DOMAIN codebook' = DOMAIN codebook \cup {v}
              /\ \A w \in DOMAIN codebook \ {v} : codebook'[w] = codebook[w]]_vars

----------------------------------------------------------------------------
(* C10 *)

\* C10: append with an odd number of code/label arguments raises ValueError and
\* leaves the codebook as it was.
C10_OddAppendRejected ==
    [][(result'.op = "append" /\ result'.nargs % 2 = 1) =>
          /\ result'.raised = "ValueError"
          /\ codebook' = codebook]_vars

\* an odd append was rejected for a variable that has an entry with codes
C10_Witness ==
    /\ result.op = "append"
    /\ result.nargs % 2 = 1
    /\ result.raised = "ValueError"
    /\ result.variable \in DOMAIN codebook
    /\ Len(codebook[result.variable]) > 1

----------------------------------------------------------------------------
(* describing unregistered columns with many distinct values *)

\* the longest column of the datasets below
MaxLongRows == 26

\* a column of n values: the values cycle through 1 .. m with stride s, and
\* every gap-th value is missing (gap = 0: none is)
LongColumn(n, m, s, gap) ==
    [i \in 1 .. n |-> IF gap > 0 /\ i % gap = 0 THEN NA ELSE I(((i * s) % m) + 1)]

LongColumns ==
    {LongColumn(n, m, s, gap) :
        n \in 0 .. MaxLongRows, m \in {1, 7, 20, 21, 25}, s \in {1, 3}, gap \in {0, 7}}

\* Tabulator(data, Codebook()) over a dataset with the one column "sex"
InitDescribe ==
    /\ codebook = EmptyDict
    /\ registered = EmptyDict
    /\ \E col \in LongColumns :
           /\ data = [v \in {"sex"} |-> col]
           /\ sample_size = Len(col)
    /\ decimal_places = 2
    /\ result = NoCall

NextDescribe ==
    \/ SplitCodesLabels
    \/ Discard

SpecDescribe == InitDescribe /\ [][NextDescribe]_vars

----------------------------------------------------------------------------
(* C6 *)

\* the row at which a value first appears in a column
FirstRow(col, value) == CHOOSE i \in DOMAIN col : col[i] = value /\ \A j \in 1 .. (i - 1) : col[j] # value

NonMissingValues(col) == {col[i] : i \in {j \in DOMAIN col : ~IsNull(col[j])}}

\* C6: for a variable without a codebook entry, split_codes_labels returns at
\* most 20 codes: the first 20 (or all, if fewer) distinct non-missing values of
\* the column in order of first appearance; the labels are the variable name
\* followed by str of each code.
C6_InferredCodesCapped ==
    (/\ result.op = "split_codes_labels"
     /\ result.variable \notin DOMAIN codebook
     /\ result.variable \in DOMAIN data) =>
        LET col == data[result.variable]
            codes == result.codes
            distinct == NonMissingValues(col)
        IN  /\ result.raised = ""
            /\ Len(codes) <= 20
            /\ Len(codes) = Min(20, Cardinality(distinct))
            /\ Range(codes) \subseteq distinct
            /\ \A i, j \in DOMAIN codes :
                   i < j => FirstRow(col, codes[i]) < FirstRow(col, codes[j])
            /\ \A d \in distinct \ Range(codes) : \A i \in DOMAIN codes :
                   FirstRow(col, codes[i]) < FirstRow(col, d)
            /\ result.labels =
                   <<S(result.variable)>> \o [i \in DOMAIN codes |-> S(Str(codes[i]))]

\* a column with more than 20 distinct values, some missing, was described
C6_Witness ==
    /\ result.op = "split_codes_labels"
    /\ result.variable \in DOMAIN data
    /\ result.variable \notin DOMAIN codebook
    /\ Cardinality(NonMissingValues(data[result.variable])) > 20
    /\ CountNull(data[result.variable]) > 0
    /\ Len(result.codes) = 20

----------------------------------------------------------------------------
(* building tables: the callers' datasets, codebooks and arguments *)

\* the most rows of a dataset and the most covariates of a call
MaxRows == 5
MaxCovariates == 2

\* the rows of the datasets are taken from the head of these columns
SexColumn == <<I(1), I(2), I(1), NA, I(2), I(1)>>
QsmkColumn == <<I(2), NA, I(2), I(1), I(1), I(2)>>

\* pd.DataFrame of n rows, with or without the column "qsmk"
Dataset(n, with_qsmk) ==
    [v \in (IF with_qsmk THEN {"sex", "qsmk"} ELSE {"sex"}) |->
        IF v = "sex" THEN SubSeq(SexColumn, 1, n) ELSE SubSeq(QsmkColumn, 1, n)]

\* the append calls that build a codebook: "sex" with both of its codes, with
\* one of them and a code no row has, with no code, and with one label twice;
\* or both variables with their codes
Registrations ==
    [none |-> <<>>,
     full |-> <<[variable |-> "sex", label |-> S("Sex"),
                 args |-> <<I(1), S("Male"), I(2), S("Female")>>]>>,
     part |-> <<[variable |-> "sex", label |-> S("Sex"),
                 args |-> <<I(1), S("Male"), I(3), S("Other")>>]>>,
     bare |-> <<[variable |-> "sex", label |-> S("Sex"), args |-> <<>>]>>,
     same |-> <<[variable |-> "sex", label |-> S("Sex"),
                 args |-> <<I(1), S("A"), I(2), S("A")>>]>>,
     both |-> <<[variable |-> "sex", label |-> S("Sex"),
                 args |-> <<I(1), S("Male"), I(2), S("Female")>>],
                [variable |-> "qsmk", label |-> S("Quit smoking"),
                 args |-> <<I(1), S("Yes"), I(2), S("No")>>]>>]

\* c = Codebook(); c.append(...); ...
RECURSIVE Built(_)
Built(calls) ==
    IF calls = <<>> THEN EmptyDict
    ELSE LET c == calls[Len(calls)]
         IN  append(Built(SubSeq(calls, 1, Len(calls) - 1)),
                    c.variable, c.label, c.args).codebook

RegisteredBy(calls) ==
    [v \in {calls[i].variable : i \in DOMAIN calls} |->
        LET last == CHOOSE i \in DOMAIN calls :
                        /\ calls[i].variable = v
                        /\ \A j \in (i + 1) .. Len(calls) : calls[j].variable # v
        IN  [label |-> calls[last].label, args |-> calls[last].args]]

\* the datasets and codebooks a Tabulator is constructed with
Scenarios ==
    {[rows |-> n, with_qsmk |-> TRUE, calls |-> "full", decimal_places |-> 2]
         : n \in 0 .. MaxRows}
    \cup {[rows |-> MaxRows, with_qsmk |-> TRUE, calls |-> c, decimal_places |-> 2]
              : c \in {"none", "part", "bare", "same"}}
    \cup {[rows |-> MaxRows, with_qsmk |-> FALSE, calls |-> c, decimal_places |-> 0]
              : c \in {"none", "full", "both"}}

Types == {"N", "U", "C"}

\* a covariate with its type tag
TypedCovariates == {<<"sex", "C">>, <<"sex", "N">>, <<"qsmk", "C">>, <<"qsmk", "U">>}

CovariateLists == UNION {[1 .. n -> TypedCovariates] : n \in 0 .. MaxCovariates}

\* the variables of interest of a call with their type tags: none, one of
\* either column with any tag, or two
VoiLists ==
    {<<>>}
    \cup {<<<<v, ty>>>> : v \in Vars, ty \in Types}
    \cup {<<<<"qsmk", "C">>, <<"sex", "N">>>>, <<<<"sex", "C">>, <<"qsmk", "C">>>>}

\* missing counts are asked for only with the total column
Flags ==
    {[missing |-> m, total_row |-> tr, total_column |-> tc] :
        m \in BOOLEAN, tr \in BOOLEAN, tc \in BOOLEAN} \ 
    {[missing |-> TRUE, total_row |-> tr, total_column |-> FALSE] : tr \in BOOLEAN}

NamesOf(typed) == [i \in DOMAIN typed |-> typed[i][1]]
TypesOf(typed) == [i \in DOMAIN typed |-> typed[i][2]]

\* the Tabulator object
Self ==
    [data |-> data, codebook |-> codebook,
     sample_size |-> sample_size, decimal_places |-> decimal_places]

Call(args) ==
    generate_bivariate_table(Self, args.covariates, args.covariable_type,
                             args.variables_of_interest, args.variable_of_interest_data_type,
                             args.missing, args.total_row, args.total_column,
                             args.category_variable_suffix)

GenerateBivariateTable ==
    \E covs \in CovariateLists, vois \in VoiLists, flags \in Flags :
        LET args == [covariates |-> NamesOf(covs),
                     covariable_type |-> TypesOf(covs),
                     variables_of_interest |-> NamesOf(vois),
                     variable_of_interest_data_type |-> TypesOf(vois),
                     missing |-> flags.missing,
                     total_row |-> flags.total_row,
                     total_column |-> flags.total_column,
                     category_variable_suffix |-> "n(%)"]
        IN  /\ Idle
            /\ result' = [op |-> "generate_bivariate_table", args |-> args,
                          return |-> Call(args)]
            /\ codebook' = CodebookAfterDescribe(codebook,
                               args.covariates \o args.variables_of_interest)
            /\ UNCHANGED <<data, sample_size, decimal_places, registered>>

\* the same call once more, right after the first returned or raised
GenerateAgain ==
    /\ result.op = "generate_bivariate_table"
    /\ result' = [op |-> "generate_again", args |-> result.args,
                  first |-> result.return, return |-> Call(result.args)]
    /\ codebook' = CodebookAfterDescribe(codebook,
                       result.args.covariates \o result.args.variables_of_interest)
    /\ UNCHANGED <<data, sample_size, decimal_places, registered>>

\* c = Codebook(); c.append(...); tab = Tabulator(df, c, decimal_places)
Init ==
    \E sc \in Scenarios :
        /\ codebook = Built(Registrations[sc.calls])
        /\ registered = RegisteredBy(Registrations[sc.calls])
        /\ data = Dataset(sc.rows, sc.with_qsmk)
        /\ sample_size = sc.rows
        /\ decimal_places = sc.decimal_places
        /\ result = NoCall

Next ==
    \/ GenerateBivariateTable
    \/ Discard

Spec == Init /\ [][Next]_vars

\* a caller that repeats each call: Tabulator over the full dataset, with the
\* codebook empty or holding "sex"
InitTwice ==
    \E c \in {"none", "full"}, with_qsmk \in BOOLEAN :
        /\ codebook = Built(Registrations[c])
        /\ registered = RegisteredBy(Registrations[c])
        /\ data = Dataset(MaxRows, with_qsmk)
        /\ sample_size = MaxRows
        /\ decimal_places = 2
        /\ result = NoCall

NextTwice ==
    \/ GenerateBivariateTable
    \/ GenerateAgain
    \/ Discard

SpecTwice == InitTwice /\ [][NextTwice]_vars

----------------------------------------------------------------------------
(* what a returned table is measured against *)

\* the call returned a table and a column grouping
Returned == result.op = "generate_bivariate_table" /\ result.return.raised = ""

Described(variable) == split_codes_labels(codebook, data, variable)

\* the rows a covariate takes: its header row, then one row per category, or
\* the one row of its statistic
RowsOf(variable, type) ==
    IF type = "C" THEN 1 + Len(Described(variable).codes) ELSE 2

\* the columns a variable of interest takes: one per category, or one
WidthOf(variable, type) ==
    IF type = "C" THEN Len(Described(variable).codes) ELSE 1

\* the row (from 1) of the header of the k-th covariate
HeaderRow(args, k) ==
    1 + (IF args.total_row THEN 1 ELSE 0)
      + Sum([i \in 1 .. (k - 1) |-> RowsOf(args.covariates[i], args.covariable_type[i])])
      + 1

\* the columns before the blocks of the variables of interest
LeadColumns(args) == IF args.total_column THEN 2 ELSE 1

\* the column (from 1) where the block of the v-th variable of interest starts
FirstColumn(args, v) ==
    LeadColumns(args)
      + Sum([i \in 1 .. (v - 1) |-> WidthOf(args.variables_of_interest[i],
                                            args.variable_of_interest_data_type[i])])
      + 1

\* the rows of the dataset where a column holds a value
RowsWith(variable, value) == {r \in DOMAIN data[variable] : data[variable][r] = value}

\* the pairs (covariate k, variable of interest v) of a call, both categorical
CrossPairs(args) ==
    {kv \in (DOMAIN args.covariates) \X (DOMAIN args.variables_of_interest) :
        /\ args.covariable_type[kv[1]] = "C"
        /\ args.variable_of_interest_data_type[kv[2]] = "C"}

----------------------------------------------------------------------------
(* C1 *)

\* C1: whenever generate_bivariate_table returns, the column grouping sums to
\* the number of columns of the table, and it is 1 for the name column, 1 for
\* the total column when asked for, then the width of the block of each
\* variable of interest in turn
C1_GroupingMatchesColumns ==
    Returned =>
        LET args == result.args
            grouping == result.return.column_grouping
            vois == args.variables_of_interest
        IN  /\ Sum(grouping) = Len(result.return.table)
            /\ grouping =
                   (IF args.total_column THEN <<1, 1>> ELSE <<1>>)
                       \o [v \in DOMAIN vois |->
                              WidthOf(vois[v], args.variable_of_interest_data_type[v])]

\* a table with the total column, a block of two categories and a block of one
\* statistic
C1_Witness ==
    /\ Returned
    /\ result.args.total_column
    /\ result.args.variable_of_interest_data_type = <<"C", "N">>
    /\ result.return.column_grouping = <<1, 1, 2, 1>>
    /\ Len(result.return.table) = 5

----------------------------------------------------------------------------
(* C2 *)

\* C2: in every returned table each column (the total column, the columns of
\* every block) has as many rows as the name column, and every cell is a str:
\* a cell no statistic was written to is blank, never NaN
C2_RowsAlignedCellsAreStr ==
    Returned =>
        LET table == result.return.table
        IN  \A c \in DOMAIN table :
                /\ Len(table[c].cells) = Len(table[1].cells)
                /\ \A r \in DOMAIN table[c].cells : IsStr(table[c].cells[r])

\* a table with the total column without missing counts (blank header cells)
\* and a block that leaves the header row of a covariate blank
C2_Witness ==
    /\ Returned
    /\ result.args.total_column /\ ~result.args.missing
    /\ Len(result.args.covariates) = 2
    /\ Len(result.args.variables_of_interest) = 1
    /\ LET table == result.return.table
           k == HeaderRow(result.args, 2)
       IN  /\ Len(table) >= 3
           /\ table[2].cells[k] = S("")
           /\ table[3].cells[k] = S("")
           /\ table[3].cells[k + 1] # S("")

----------------------------------------------------------------------------
(* C3 *)

\* the cell a categorical covariate and a categorical variable of interest
\* meet in: n rows of the n_a rows of the covariate category
CrossText(n, n_a) ==
    S(IntStr(n) \o " (" \o PercentText(n, n_a, decimal_places) \o ")")

\* C3: for a categorical covariate and a categorical variable of interest of
\* a returned table, the cell in the row of covariate category a and the column
\* of category b of the variable of interest shows the number n of rows with
\* covariate = a and variable of interest = b, and n as a percentage of the
\* rows with covariate = a; the covariate has one such row per category (the
\* name column holds the category's label there) and the block one such column
\* per category of the variable of interest (headed by the category's label)
C3_CrossCellsWithinCategory ==
    Returned =>
        LET args == result.args
            table == result.return.table
        IN  \A kv \in CrossPairs(args) :
                LET covariate == args.covariates[kv[1]]
                    voi == args.variables_of_interest[kv[2]]
                    a == Described(covariate)
                    b == Described(voi)
                    row == HeaderRow(args, kv[1])
                    col == FirstColumn(args, kv[2])
                IN  /\ result.return.column_grouping[LeadColumns(args) + kv[2]]
                           = Len(b.codes)
                    /\ \A i \in DOMAIN a.codes :
                           /\ table[1].cells[row + i] = a.labels[i + 1]
                           /\ \A j \in DOMAIN b.codes :
                                  LET in_a == RowsWith(covariate, a.codes[i])
                                      in_b == RowsWith(voi, b.codes[j])
                                  IN  /\ table[col + j - 1].cells[1] = b.labels[j + 1]
                                      /\ table[col + j - 1].cells[row + i]
                                             = CrossText(Cardinality(in_a \cap in_b),
                                                         Cardinality(in_a))

\* a cell of some but not all rows of a covariate category that is itself
\* some but not all of the sample
C3_Witness ==
    /\ Returned
    /\ \E kv \in CrossPairs(result.args) :
           LET covariate == result.args.covariates[kv[1]]
               voi == result.args.variables_of_interest[kv[2]]
           IN  \E i \in DOMAIN Described(covariate).codes,
                  j \in DOMAIN Described(voi).codes :
                   LET in_a == RowsWith(covariate, Described(covariate).codes[i])
                       in_b == RowsWith(voi, Described(voi).codes[j])
                   IN  /\ 0 < Cardinality(in_a \cap in_b)
                       /\ Cardinality(in_a \cap in_b) < Cardinality(in_a)
                       /\ Cardinality(in_a) < sample_size
                       /\ result.return.table[FirstColumn(result.args, kv[2]) + j - 1]
                              .cells[HeaderRow(result.args, kv[1]) + i]
                              = CrossText(Cardinality(in_a \cap in_b), Cardinality(in_a))

----------------------------------------------------------------------------
(* C4 *)

\* the counts n that a cell "n (p%)" of the total column can stand for
ShownCounts(cell) ==
    {n \in 0 .. sample_size :
        cell = S(CountPercentText(n, sample_size, decimal_places))}

\* the categorical covariates of a call whose table has the total column
TotalledCategoricals(args) ==
    IF args.total_column
    THEN {k \in DOMAIN args.covariates : args.covariable_type[k] = "C"}
    ELSE {}

\* the cells of the total column in the category rows of the k-th covariate
CategoryCells(args, table, k) ==
    [i \in DOMAIN Described(args.covariates[k]).codes |->
        table[2].cells[HeaderRow(args, k) + i]]

\* the counts shown in cells sum to total
CountsSumTo(cells, total) ==
    /\ \A i \in DOMAIN cells : ShownCounts(cells[i]) # {}
    /\ Sum([i \in DOMAIN cells |-> CHOOSE n \in ShownCounts(cells[i]) : TRUE]) = total

\* the rows of a column that hold a value
NonMissingRows(variable) == {r \in DOMAIN data[variable] : ~IsNull(data[variable][r])}

\* the rows of a column that hold one of the described codes
DescribedRows(variable) ==
    {r \in DOMAIN data[variable] : data[variable][r] \in Range(Described(variable).codes)}

\* C4 as stated: for every categorical covariate the counts in its category
\* rows of the total column sum to the number of non-missing values of the
\* covariate
C4_CountsSumToNonMissing ==
    Returned =>
        \A k \in TotalledCategoricals(result.args) :
            LET covariate == result.args.covariates[k]
            IN  covariate \in DOMAIN data =>
                    CountsSumTo(CategoryCells(result.args, result.return.table, k),
                                Cardinality(NonMissingRows(covariate)))

\* C4 as the code has it: for every categorical covariate the counts in its
\* category rows of the total column sum to the number of rows whose value is
\* one of the described categories, which is the number of non-missing values
\* when every non-missing value is a described category
C4_CountsSumToDescribed ==
    Returned =>
        \A k \in TotalledCategoricals(result.args) :
            LET covariate == result.args.covariates[k]
                cells == CategoryCells(result.args, result.return.table, k)
            IN  covariate \in DOMAIN data =>
                    /\ CountsSumTo(cells, Cardinality(DescribedRows(covariate)))
                    /\ NonMissingRows(covariate) \subseteq DescribedRows(covariate)
                           => CountsSumTo(cells, Cardinality(NonMissingRows(covariate)))

\* a total column over a covariate with missing values and with a value the
\* codebook has no category for: the counts fall short of the non-missing rows
C4_Witness ==
    /\ Returned
    /\ \E k \in TotalledCategoricals(result.args) :
           LET covariate == result.args.covariates[k]
           IN  /\ covariate \in DOMAIN codebook
               /\ covariate \in DOMAIN data
               /\ CountNull(data[covariate]) > 0
               /\ DescribedRows(covariate) # {}
               /\ Cardinality(DescribedRows(covariate))
                      < Cardinality(NonMissingRows(covariate))
               /\ CountsSumTo(CategoryCells(result.args, result.return.table, k),
                              Cardinality(DescribedRows(covariate)))

----------------------------------------------------------------------------
(* C7 *)

----------------------------------------------------------------------------
(* raw_table_report (basic_analysis.py) *)

\* report[name] = cells: a new last column, or new cells for the column that
\* already has the name
SetColumn(report, name, cells) ==
    IF \E i \in DOMAIN report : report[i].name = name
    THEN [i \in DOMAIN report |->
             IF report[i].name = name THEN Column(name, cells) ELSE report[i]]
    ELSE Append(report, Column(name, cells))

\* dataset[column].map(lambda x: codebook.get_code_label(column, x))
MapCodeLabels(cb, column, cells) ==
    [r \in DOMAIN cells |-> get_code_label(cb, column, cells[r])]

\* the loop over dataset.columns (lines 18-24)
RECURSIVE ReportColumns(_, _, _, _)
ReportColumns(report, dataset, cb, k) ==
    IF k > Len(dataset.columns) THEN report
    ELSE LET column == dataset.columns[k]
         IN  ReportColumns(
                 IF column \in DOMAIN cb
                 THEN SetColumn(report, get_variable_label(cb, column),
                                MapCodeLabels(cb, column, dataset.values[column]))
                 ELSE SetColumn(report, S(column), dataset.values[column]),
                 dataset, cb, k + 1)

\* raw_table_report(dataset, codebook); a dataset is its column names in order
\* and the cells of each
raw_table_report(dataset, cb) == ReportColumns(<<>>, dataset, cb, 1)

\* the dataset of the report's caller: two coded columns, one with a code
\* that is never registered, and a column that holds text already
ReportData ==
    [v \in {"sex", "qsmk", "Sex"} |->
        IF v = "sex" THEN <<I(1), I(2), I(3), I(1)>>
        ELSE IF v = "qsmk" THEN <<I(2), I(1), I(2), I(2)>>
        ELSE <<S("M"), S("F"), S("F"), S("M")>>]

\* the orders the columns of a frame can be in
ColumnOrders(names) ==
    {order \in [1 .. Cardinality(names) -> names] :
        \A i, j \in DOMAIN order : i # j => order[i] # order[j]}

RawTableReport ==
    \E columns \in ColumnOrders(DOMAIN data) :
        /\ Idle
        /\ result' = [op |-> "raw_table_report", columns |-> columns,
                      return |-> raw_table_report([columns |-> columns, values |-> data],
                                                  codebook)]
        /\ UNCHANGED <<codebook, data, sample_size, decimal_places, registered>>

\* c = Codebook(); test_df = pd.DataFrame(...)
InitReport ==
    /\ codebook = EmptyDict
    /\ registered = EmptyDict
    /\ data = ReportData
    /\ sample_size = Len(ReportData["sex"])
    /\ decimal_places = 2
    /\ result = NoCall

NextReport ==
    \/ CodebookAppend
    \/ RawTableReport
    \/ Discard

SpecReport == InitReport /\ [][NextReport]_vars

----------------------------------------------------------------------------
(* C11 *)

\* the cells a registered column is to show: the label registered for the
\* value, or str(value) when the value was not registered as a code
Relabelled(column) ==
    [r \in DOMAIN data[column] |->
        IF IsRegisteredPair(column, data[column][r])
        THEN LastLabel(registered[column].args, data[column][r])
        ELSE S(Str(data[column][r]))]

\* C11: the table raw_table_report returns has one column per dataset column,
\* with the rows of the dataset in their order: a column registered in the
\* codebook is named by its variable label and holds the registered label of
\* each value (str(value) for a value not registered), an unregistered column
\* keeps its name and its values
C11_ReportRelabelsColumns ==
    result.op = "raw_table_report" =>
        /\ Len(result.return) = Len(result.columns)
        /\ \A i \in DOMAIN result.columns :
               i \in DOMAIN result.return =>
                   LET column == result.columns[i]
                   IN  IF IsRegistered(column)
                       THEN /\ result.return[i].name = registered[column].label
                            /\ result.return[i].cells = Relabelled(column)
                       ELSE /\ result.return[i].name = S(column)
                            /\ result.return[i].cells = data[column]

----------------------------------------------------------------------------
(* C12 *)

\* the columns a call names, as covariates or as variables of interest
NamedColumns(args) == Range(args.covariates) \cup Range(args.variables_of_interest)

\* C12: a call of generate_bivariate_table that names, as a covariate or as a
\* variable of interest, a column the dataset does not have raises an
\* exception and returns no table, whatever the type tags and flags and
\* whether or not the name has an entry in the codebook
C12_AbsentColumnFails ==
    (/\ result.op = "generate_bivariate_table"
     /\ \E v \in NamedColumns(result.args) : v \notin DOMAIN data)
        => /\ result.return.raised # ""
           /\ result.return.table = <<>>

----------------------------------------------------------------------------
(* C13 *)

\* the pairs (covariate k, variable of interest v) of a call, both numeric
NumericPairs(args) ==
    {kv \in (DOMAIN args.covariates) \X (DOMAIN args.variables_of_interest) :
        /\ args.covariable_type[kv[1]] \in {"N", "U"}
        /\ args.variable_of_interest_data_type[kv[2]] \in {"N", "U"}}

\* the cell of the block of v in the statistic row of covariate k
CorrelationCell(args, table, kv) ==
    table[FirstColumn(args, kv[2])].cells[HeaderRow(args, kv[1]) + 1]

\* the values of the variable of interest and of the covariate in the rows
\* where neither is missing
CompletePairs(covariate, voi) ==
    LET rows == {r \in DOMAIN data[voi] :
                    ~IsNull(data[voi][r]) /\ ~IsNull(data[covariate][r])}
    IN  <<AtRows(data[voi], rows), AtRows(data[covariate], rows)>>

\* C13: for a numeric covariate and a numeric variable of interest of a
\* returned table (Pearson for N with N, Spearman when either is U) the
\* coefficient shown is that of the rows in which both the covariate and the
\* variable of interest are non-missing
C13_CorrelationOverCompletePairs ==
    Returned =>
        \A kv \in NumericPairs(result.args) :
            LET cell == CorrelationCell(result.args, result.return.table, kv)
            IN  /\ Len(cell) = 4
                /\ cell[3] = CompletePairs(result.args.covariates[kv[1]],
                                           result.args.variables_of_interest[kv[2]])

----------------------------------------------------------------------------
(* C14 *)

\* the non-missing values of a column in the rows where another column holds
\* a code, in row order
ValuesWithin(of, by, code) ==
    LET rows == RowsWith(by, code)
        taken == {r \in rows : ~IsNull(data[of][r])}
    IN  AtRows(data[of], taken)

\* the text of a statistic of a column within a category of another column
WithinText(format, of, by, code) ==
    <<"str", format, <<ValuesWithin(of, by, code)>>, decimal_places>>

\* the statistic a correlation cell names
IsPearson(cell) == Len(cell) = 4 /\ cell[2] = "Pearson r: {pearsonr}"
IsSpearman(cell) ==
    Len(cell) = 4 /\ cell[2] \in {"Spearman r: {spearmanr}", "spearman r: {spearmanr}"}

\* C14: in a returned table the cells of a covariate in the block of a
\* variable of interest are chosen by the two type tags: N/N Pearson r and
\* N/U, U/N, U/U Spearman r, one cell in the first column of the one statistic
\* row; N/C mean (sd) and U/C median (IQR) of the covariate within each
\* category of the variable of interest, one row with a cell per category
\* column; C/N mean (sd) and C/U median (IQR) of the variable of interest
\* within each covariate category, one row per category in the first column;
\* C/C count (%), one row per covariate category and one column per category
\* of the variable of interest
C14_StatisticByTypes ==
    Returned =>
        LET args == result.args
            table == result.return.table
        IN  \A k \in DOMAIN args.covariates, v \in DOMAIN args.variables_of_interest :
                LET covariate == args.covariates[k]
                    voi == args.variables_of_interest[v]
                    ct == args.covariable_type[k]
                    vt == args.variable_of_interest_data_type[v]
                    a == Described(covariate).codes
                    b == Described(voi).codes
                    row == HeaderRow(args, k)
                    col == FirstColumn(args, v)
                    width == result.return.column_grouping[LeadColumns(args) + v]
                IN  CASE ct = "N" /\ vt = "N" ->
                             width = 1 /\ IsPearson(table[col].cells[row + 1])
                      [] ct \in {"N", "U"} /\ vt \in {"N", "U"} ->
                             width = 1 /\ IsSpearman(table[col].cells[row + 1])
                      [] ct \in {"N", "U"} /\ vt = "C" ->
                             /\ width = Len(b)
                             /\ \A j \in DOMAIN b :
                                    table[col + j - 1].cells[row + 1] =
                                        WithinText(IF ct = "N" THEN "{mean} ({sd})"
                                                   ELSE "{median} ({iqr})",
                                                   covariate, voi, b[j])
                      [] ct = "C" /\ vt \in {"N", "U"} ->
                             /\ width = 1
                             /\ \A i \in DOMAIN a :
                                    table[col].cells[row + i] =
                                        WithinText(IF vt = "N" THEN "{mean} ({sd})"
                                                   ELSE "{median} ({iqr})",
                                                   voi, covariate, a[i])
                      [] ct = "C" /\ vt = "C" ->
                             /\ width = Len(b)
                             /\ \A i \in DOMAIN a, j \in DOMAIN b :
                                    \E n \in 0 .. sample_size, m \in 1 .. sample_size :
                                        table[col + j - 1].cells[row + i] = CrossText(n, m)

\* a table in which a numeric covariate meets a categorical variable of
\* interest and a categorical covariate a numeric one, over two different
\* columns, with a missing value left out of a sample
C14_Witness ==
    /\ Returned
    /\ result.args.covariates = <<"sex", "qsmk">>
    /\ result.args.covariable_type = <<"N", "C">>
    /\ result.args.variables_of_interest = <<"qsmk", "sex">>
    /\ result.args.variable_of_interest_data_type = <<"C", "N">>
    /\ ~result.args.total_column /\ ~result.args.total_row
    /\ Described("qsmk").codes = <<I(2), I(1)>>
    /\ result.return.table[2].cells[3] = WithinText("{mean} ({sd})", "sex", "qsmk", I(2))
    /\ result.return.table[4].cells[6] = WithinText("{mean} ({sd})", "sex", "qsmk", I(1))
    /\ IsPearson(result.return.table[4].cells[3])
    /\ Len(ValuesWithin("sex", "qsmk", I(1))) = 1
    /\ Cardinality(RowsWith("qsmk", I(1))) = 2

----------------------------------------------------------------------------
(* calculate_variable_of_interest_columns, one covariate at a time *)

\* generate_bivariate_table has built the name column and enters
\* calculate_variable_of_interest_columns with its length: the grid is sized
\* and the cursor stands before the loop over the covariates
VoiColumnsStart ==
    \E covs \in CovariateLists, voi \in Vars, variable_type \in Types, total_row \in BOOLEAN :
        LET args == [covariates |-> NamesOf(covs),
                     covariable_type |-> TypesOf(covs),
                     variable_of_interest |-> voi,
                     variable_type |-> variable_type,
                     total_row |-> total_row,
                     total_column |-> FALSE]
            name == calculate_covariate_name_column(Self, args.covariates,
                        args.covariable_type, total_row, "n(%)")
            sp == split_codes_labels(codebook, data, voi)
        IN  /\ Idle
            /\ name.raised = ""
            /\ sp.raised = ""
            /\ LET st == VoiStart(Self, sp, voi, variable_type, NRows(name.frame), total_row)
               IN  result' = [op |-> "voi_columns", args |-> args,
                              table_length |-> NRows(name.frame),
                              k |-> 1, before |-> st, st |-> st]
            /\ UNCHANGED <<codebook, data, sample_size, decimal_places, registered>>

\* one turn of the loop over the covariates (lines 191-318)
VoiColumnsCovariate ==
    /\ result.op = "voi_columns"
    /\ result.st.raised = ""
    /\ result.k <= Len(result.args.covariates)
    /\ LET args == result.args
           sp == split_codes_labels(codebook, data, args.variable_of_interest)
       IN  result' = [result EXCEPT
                         !.k = @ + 1,
                         !.before = result.st,
                         !.st = VoiCovariate(Self, result.st, args.covariates[result.k],
                                             args.covariable_type[result.k],
                                             args.variable_of_interest, args.variable_type,
                                             sp.codes)]
    /\ UNCHANGED <<codebook, data, sample_size, decimal_places, registered>>

\* the loop is over, or an exception left it: the header is written and the
\* block returned (lines 320-325)
VoiColumnsReturn ==
    /\ result.op = "voi_columns"
    /\ result.st.raised # "" \/ result.k > Len(result.args.covariates)
    /\ LET args == result.args
           sp == split_codes_labels(codebook, data, args.variable_of_interest)
           st == VoiHeader(result.st, sp.labels, args.variable_type)
       IN  result' = [op |-> "voi_columns_return", args |-> args,
                      table_length |-> result.table_length,
                      raised |-> st.raised,
                      frame |-> IF st.raised = "" THEN st.grid ELSE <<>>]
    /\ UNCHANGED <<codebook, data, sample_size, decimal_places, registered>>

NextCursor ==
    \/ VoiColumnsStart
    \/ VoiColumnsCovariate
    \/ VoiColumnsReturn
    \/ Discard

SpecCursor == Init /\ [][NextCursor]_vars

----------------------------------------------------------------------------
(* C15 *)

\* the rows (from 1) the name column gives to the statistic name or to the
\* categories of the k-th covariate
StatisticRows(args, k) ==
    (HeaderRow(args, k) + 1) ..
        (HeaderRow(args, k) + RowsOf(args.covariates[k], args.covariable_type[k]) - 1)

\* the cells (column, row) of the grid the last turn of the loop changed
WrittenCells(before, after) ==
    {cr \in (DOMAIN after.grid) \X (1 .. after.nrows) :
        after.grid[cr[1]].cells[cr[2]] # before.grid[cr[1]].cells[cr[2]]}

\* the row cursor goes with the name column: before the turn of the k-th
\* covariate (and after the last turn, k being one more than their number) it
\* is at the covariate's header row, or at the row count of the table; the
\* header rows of the covariates done are blank in the block; the cells the
\* last turn wrote are in the statistic rows of its covariate
CursorFollowsNameColumn ==
    result.op = "voi_columns" =>
        LET args == result.args
            st == result.st
            k == result.k
        IN  /\ st.raised = "" =>
                   /\ k <= Len(args.covariates) => st.row_index + 1 = HeaderRow(args, k)
                   /\ k > Len(args.covariates) => st.row_index = result.table_length
            /\ k > 1 =>
                   /\ \A cr \in WrittenCells(result.before, st) :
                          cr[2] \in StatisticRows(args, k - 1)
                   /\ \A j \in 1 .. (k - 1), c \in DOMAIN st.grid :
                          st.grid[c].cells[HeaderRow(args, j)] = S("")

\* C15: in calculate_variable_of_interest_columns, whatever the covariates,
\* the type tags and the total row, the row cursor is at a covariate's header
\* row of the name column when the covariate's turn starts, that row stays
\* blank in the block, the cells written for the covariate are in its statistic
\* or category rows, the cursor ends at the row count of the table, and no
\* write falls outside the grid (no assignment to a cell raises IndexError)
C15_NoWriteOutsideGrid ==
    /\ CursorFollowsNameColumn
    /\ result.op = "voi_columns" => result.st.raised # "IndexError"

----------------------------------------------------------------------------
(* latex_output (table_output.py): the header line and its sub-rules *)

\* the most columns of a rendered table, the longest column grouping and the
\* widest group a caller passes
MaxColumns == 5
MaxGroups == 4
MaxWidth == 3

\* a cell of the header line as to_latex wrote it
PlainCell(text) == [kind |-> "plain", width |-> 1, text |-> text]

\* f"\multicolumn{{{i}}}{{c}}{{{columns[count].strip()}}}"
Multicolumn(i, cell) == [kind |-> "multicolumn", width |-> i, text |-> cell.text]

\* f"\cmidrule(lr{{0.5em}}){{{suffix_index+1}-{suffix_index+i}}} ": the rule's
\* first and last column as LaTeX counts them, from 1
Cmidrule(suffix_index, i) == [from |-> suffix_index + 1, to |-> suffix_index + i]

\* the rule of a group of width i at the running sum of the widths before it
CmidruleAtOffset(st, i) == Cmidrule(st.suffix_index, i)

\* the loop over column_grouping (lines 61-76)
RECURSIVE MergeGroups(_, _, _)
MergeGroups(st, column_grouping, g) ==
    IF g > Len(column_grouping) \/ st.raised # "" THEN st
    ELSE LET i == column_grouping[g]
         IN  IF i < 1 THEN [st EXCEPT !.raised = "ValueError"]
             ELSE IF i = 1
             THEN MergeGroups([st EXCEPT !.count = @ + 1, !.suffix_index = @ + 1],
                              column_grouping, g + 1)
             ELSE IF st.count >= Len(st.columns)
             THEN [st EXCEPT !.raised = "IndexError"]
             ELSE MergeGroups(
                      [raised |-> "",
                       \* columns[count] = ...; del columns[count + 1 : count + i]
                       columns |-> SubSeq(st.columns, 1, st.count)
                                       \o <<Multicolumn(i, st.columns[st.count + 1])>>
                                       \o SubSeq(st.columns, st.count + i + 1,
                                                 Len(st.columns)),
                       suffix |-> Append(st.suffix, CmidruleAtOffset(st, i)),
                       count |-> st.count + 1,
                       suffix_index |-> st.suffix_index + i],
                      column_grouping, g + 1)

\* latex_output(result, column_grouping=...): the header line of the rendered
\* table, given the names of the table's columns.  column_grouping is
\* [given, widths], given being FALSE for None.  A header line of nothing but
\* blanks is deleted (lines 79-80).
latex_output(names, column_grouping) ==
    LET columns == [c \in DOMAIN names |-> PlainCell(names[c])]
        st0 == [raised |-> "", columns |-> columns, suffix |-> <<>>,
                count |-> 0, suffix_index |-> 0]
        st == IF column_grouping.given /\ Cardinality(Range(column_grouping.widths)) > 1
              THEN MergeGroups(st0, column_grouping.widths, 1)
              ELSE st0
        blank == \A c \in DOMAIN st.columns :
                     st.columns[c].kind = "plain" /\ st.columns[c].text = ""
    IN  IF st.raised # ""
        THEN [raised |-> st.raised, deleted |-> FALSE, header |-> <<>>, rules |-> <<>>]
        ELSE [raised |-> "", deleted |-> blank,
              header |-> IF blank THEN <<>> ELSE st.columns,
              rules |-> st.suffix]

\* the names of the columns of the tables rendered: those of a table of
\* generate_bivariate_table (blank but for the first column of a block)
HeaderNames == <<"", "", "Sex", "", "Age", "Quit smoking">>

\* the column groupings a caller passes: None, or widths (0 is not a width
\* latex_output accepts)
ColumnGroupings ==
    {[given |-> FALSE, widths |-> <<>>]}
    \cup {[given |-> TRUE, widths |-> w] :
              w \in UNION {[1 .. n -> 0 .. MaxWidth] : n \in 0 .. MaxGroups}}

LatexOutput ==
    \E ncols \in 1 .. MaxColumns, blank \in BOOLEAN, column_grouping \in ColumnGroupings :
        LET names == [c \in 1 .. ncols |->
                         IF blank \/ c > Len(HeaderNames) THEN "" ELSE HeaderNames[c]]
        IN  /\ Idle
            /\ result' = [op |-> "latex_output", names |-> names,
                          column_grouping |-> column_grouping,
                          return |-> latex_output(names, column_grouping)]
            /\ UNCHANGED <<codebook, data, sample_size, decimal_places, registered>>

NextLatex ==
    \/ LatexOutput
    \/ Discard

SpecLatex == InitCodebook /\ [][NextLatex]_vars

----------------------------------------------------------------------------
(* C16 *)

\* the sum of the widths of the groups before the g-th
OffsetOf(widths, g) == Sum(SubSeq(widths, 1, g - 1))

\* the groups wider than one column, in order
WideGroups(widths) == SelectSeq([g \in DOMAIN widths |-> g], LAMBDA g : widths[g] > 1)

\* C16: latex_output, given a column grouping of widths (each at least 1) that
\* sum to the number of columns of the table, renders the header line with one
\* cell per group: a group of width 1 keeps its plain cell, a group of width
\* w > 1 becomes one \multicolumn cell of width w with a \cmidrule beneath it
\* over the columns s .. s+w-1 counted from 0 (s+1 .. s+w as LaTeX counts),
\* s being the sum of the widths of the groups before it.  (A header line of
\* blanks only is dropped from the output; the claim is about the header
\* lines rendered.)
C16_HeaderMergedByGroups ==
    (/\ result.op = "latex_output"
     /\ result.column_grouping.given
     /\ \A g \in DOMAIN result.column_grouping.widths :
            result.column_grouping.widths[g] >= 1
     /\ Sum(result.column_grouping.widths) = Len(result.names))
        => LET widths == result.column_grouping.widths
               out == result.return
               wide == WideGroups(widths)
           IN  /\ out.raised = ""
               /\ ~out.deleted =>
                      /\ Len(out.header) = Len(widths)
                      /\ \A g \in DOMAIN widths :
                             /\ g \in DOMAIN out.header
                             /\ out.header[g].width = widths[g]
                             /\ out.header[g].kind =
                                    (IF widths[g] = 1 THEN "plain" ELSE "multicolumn")
                             /\ out.header[g].text = result.names[OffsetOf(widths, g) + 1]
                      /\ out.rules =
                             [r \in DOMAIN wide |->
                                 [from |-> OffsetOf(widths, wide[r]) + 1,
                                  to |-> OffsetOf(widths, wide[r]) + widths[wide[r]]]]

====
